---- MODULE Spec2Model ----
(***************************************************************************)
(* Merkle Mountain Range of src/src/Mmr.ts: the store (leavesCount,        *)
(* elementsCount, hashes, rootHash), append, getProof, verifyProof,        *)
(* getPeaks, clear and the position arithmetic they rest on.               *)
(*                                                                         *)
(* Field values are modelled as terms: Field(n) is the one-element tuple   *)
(* <<n>> and Poseidon.hash([a, b]) is the pair <<a, b>>, so that two       *)
(* hashes are equal exactly when their inputs are (the hash is taken to be *)
(* collision-free and never to produce a small integer).                   *)
(***************************************************************************)
EXTENDS Integers, Sequences, FiniteSets, TLC

VARIABLES
  mmr,        \* the MerkleMountainRange instance under study
  log,        \* values appended to mmr since construction or the last clear
  proof,      \* the Proof last returned by mmr.getProof (NoProof before)
  proofAge,   \* number of appends made on mmr since proof was returned
  call,       \* the last call made on mmr, its arguments and its outcome
  cleared,    \* whether clear has been called on mmr
  other,      \* a second, independently constructed MerkleMountainRange
  otherLog,   \* values appended to other since construction
  mmrRoot,    \* the mmrRoot state field of the MMRContract
  pc          \* the append or clear last begun on mmr: its statement and locals

vars ==
  <<mmr, log, proof, proofAge, call, cleared, other, otherLog, mmrRoot, pc>>

---------------------------------------------------------------------------
(* Bounds of the model *)

\* appends explored on the store of Spec
MaxLeaves == 5
\* appends explored on the store of SpecStore
MaxStoreLeaves == 10
\* appends explored on each store of SpecPair
MaxPairLeaves == 4
\* appends explored on the store of SpecVerify
MaxVerifyLeaves == 3
\* appends explored on the store of SpecContract
MaxContractLeaves == 3
\* positions explored by SpecArith
MaxPosition == 127

\* leaves appended to the store whose reading calls are examined
MaxReadLeaves == 3

\* leaves appended to the store whose calls are followed statement by statement
MaxStepLeaves == 3

\* iterations of the unrolled loops of getHeight, bitLength, pow2, count_ones
UNROLL == 64

\* length of the siblingsHashes and peaksHashes arrays of an MMRProof
ProofArrayLength == 16

\* the values appended: Field(0), the sentinel of the empty store, and Field(1)
Values == {0, 1}
\* getHeight is computed once for each position up to MaxMemo
MaxMemo == 4 * (MaxStoreLeaves + MaxLeaves + MaxPairLeaves)

---------------------------------------------------------------------------
(* Field and Poseidon *)

Field(n) == <<n>>
PoseidonHash(a, b) == <<a, b>>

---------------------------------------------------------------------------
(* Position arithmetic.  Each unrolled loop runs UNROLL iterations in the  *)
(* source; an iteration whose Provable.if condition is false leaves the    *)
(* loop state unchanged, and so do all later ones, so the recursion stops  *)
(* there with the value the remaining iterations would return.             *)

RECURSIVE bitLengthLoop(_, _, _)
bitLengthLoop(i, length, temp) ==
  IF i = UNROLL \/ ~(temp > 0) THEN length
  ELSE bitLengthLoop(i + 1, length + 1, temp \div 2)

bitLength(num) == bitLengthLoop(0, 0, num)

RECURSIVE pow2Loop(_, _, _)
pow2Loop(i, result, exp) ==
  IF i = UNROLL \/ ~(exp > 1) THEN result
  ELSE pow2Loop(i + 1, result * 2, exp - 1)

pow2(exponent) == pow2Loop(0, 1, exponent + 1)

allOnes(num) == num = pow2(bitLength(num)) - 1

RECURSIVE getHeightLoop(_, _)
getHeightLoop(i, h) ==
  IF i = UNROLL \/ allOnes(h) THEN bitLength(h) - 1
  ELSE getHeightLoop(i + 1, h - (pow2(bitLength(h) - 1) - 1))

\* getHeight of the positions the model visits, each computed once
\* getHeight taking the height of the largest tree whose size has the bit
\* length of elementIndex
getHeightBitLength(elementIndex) == bitLength(elementIndex) - 1

heightTable == [p \in 1..(MaxMemo) |-> getHeightLoop(0, p)]

getHeight(elementIndex) ==
  IF elementIndex \in 1..(MaxMemo) THEN heightTable[elementIndex]
  ELSE getHeightLoop(0, elementIndex)

siblingOffset(height) == pow2(height)

parentOffset(height) == pow2(height + 1) - 1

bintreeJumpRightSibling(elementIndex) ==
  elementIndex + (pow2(getHeight(elementIndex) + 1) - 1)

bintreeMoveDownLeft(elementIndex) ==
  IF getHeight(elementIndex) = 0 THEN 0
  ELSE elementIndex - pow2(getHeight(elementIndex))

RECURSIVE findPeaksTop(_, _)
findPeaksTop(top, elementCount) ==
  IF top - 1 <= elementCount THEN findPeaksTop(top * 2, elementCount)
  ELSE (top \div 2) - 1

\* the inner while loop of findPeaks: the peak it ends on, 0 when it breaks
RECURSIVE findPeaksDown(_, _)
findPeaksDown(peak, elementCount) ==
  IF peak > elementCount
  THEN IF bintreeMoveDownLeft(peak) = 0 THEN 0
       ELSE findPeaksDown(bintreeMoveDownLeft(peak), elementCount)
  ELSE peak

RECURSIVE findPeaksOuter(_, _, _)
findPeaksOuter(peak, peaks, elementCount) ==
  LET next == findPeaksDown(bintreeJumpRightSibling(peak), elementCount)
  IN IF next = 0 THEN peaks
     ELSE findPeaksOuter(next, Append(peaks, next), elementCount)

\* findPeaks stopping at the leftmost peak
findPeaksLeftmost(elementCount) ==
  IF elementCount = 0 THEN <<>>
  ELSE IF findPeaksTop(1, elementCount) = 0 THEN <<1>>
  ELSE <<findPeaksTop(1, elementCount)>>

\* findPeaks listing the peaks from right to left
findPeaksRightToLeft(elementCount) ==
  IF elementCount = 0 THEN <<>>
  ELSE IF findPeaksTop(1, elementCount) = 0 THEN <<1>>
  ELSE [k \in 1..Len(findPeaksOuter(findPeaksTop(1, elementCount),
                                    <<findPeaksTop(1, elementCount)>>,
                                    elementCount)) |->
          findPeaksOuter(findPeaksTop(1, elementCount),
                         <<findPeaksTop(1, elementCount)>>,
                         elementCount)[
            Len(findPeaksOuter(findPeaksTop(1, elementCount),
                               <<findPeaksTop(1, elementCount)>>,
                               elementCount)) + 1 - k]]

findPeaks(elementCount) ==
  IF elementCount = 0 THEN <<>>
  ELSE LET top == findPeaksTop(1, elementCount)
       IN IF top = 0 THEN <<1>>
          ELSE findPeaksOuter(top, <<top>>, elementCount)

RECURSIVE count_onesLoop(_, _, _)
count_onesLoop(i, sum, temp) ==
  IF i = UNROLL \/ ~(temp > 0) THEN sum
  ELSE count_onesLoop(i + 1, IF temp % 2 = 1 THEN sum + 1 ELSE sum, temp \div 2)

count_ones(n) == count_onesLoop(0, 0, n)

leaf_count_to_mmr_size(leafCount) == leafCount * 2 - count_ones(leafCount)

---------------------------------------------------------------------------
(* The store *)

\* The hashes array holds Field(0) in every slot that was not written.  It is
\* modelled by the function from the positions holding another value to that
\* value, so that two arrays are equal exactly when their models are.
hashAt(hashes, index) ==
  IF index \in DOMAIN hashes THEN hashes[index] ELSE Field(0)

\* hashes[index] = value assigning hashes[1] as well
hashPutFirst(hashes, index, value) ==
  IF value = Field(0)
  THEN [q \in DOMAIN hashes \ {index, 1} |-> hashes[q]]
  ELSE [q \in DOMAIN hashes \cup {index, 1} |->
          IF q \in {index, 1} THEN value ELSE hashes[q]]

\* hashes[index] = value
hashPut(hashes, index, value) ==
  IF value = Field(0)
  THEN [q \in DOMAIN hashes \ {index} |-> hashes[q]]
  ELSE [q \in DOMAIN hashes \cup {index} |->
          IF q = index THEN value ELSE hashes[q]]

\* new MerkleMountainRange(): every slot of hashes holds Field(0)
NewMmr ==
  [leavesCount |-> 0,
   elementsCount |-> 0,
   hashes |-> <<>>,
   rootHash |-> Field(0)]

retrievePeaksHashes(m, peaksIndices) ==
  [k \in 1..Len(peaksIndices) |-> hashAt(m.hashes, peaksIndices[k])]

\* peaks.slice(0, peaks.length - 2).reverse().reduce((prev, cur) => H(cur, prev), root0):
\* rest lists the sliced peaks still to fold, the last of them first
RECURSIVE bagReduce(_, _)
bagReduce(rest, prev) ==
  IF Len(rest) = 0 THEN prev
  ELSE bagReduce(SubSeq(rest, 1, Len(rest) - 1),
                 PoseidonHash(rest[Len(rest)], prev))

\* bagThePeaks folding the peaks left to right
RECURSIVE bagLeftReduce(_, _)
bagLeftReduce(rest, prev) ==
  IF Len(rest) = 0 THEN prev
  ELSE bagLeftReduce(Tail(rest), PoseidonHash(prev, Head(rest)))

bagThePeaksLeft(peaks) ==
  IF Len(peaks) = 0 THEN Field(0)
  ELSE IF Len(peaks) = 1 THEN peaks[1]
  ELSE bagLeftReduce(SubSeq(peaks, 3, Len(peaks)),
                     PoseidonHash(peaks[1], peaks[2]))

bagThePeaks(peaks) ==
  IF Len(peaks) = 0 THEN Field(0)
  ELSE IF Len(peaks) = 1 THEN peaks[1]
  ELSE bagReduce(SubSeq(peaks, 1, Len(peaks) - 2),
                 PoseidonHash(peaks[Len(peaks) - 1], peaks[Len(peaks)]))

calculateRootHash(bag, leafCount) == PoseidonHash(Field(leafCount), bag)

getPeaks(m) == retrievePeaksHashes(m, findPeaks(m.elementsCount))

\* mergeDue testing the height of the last position instead of the next one
mergeDueStale(lastElementIdx, height) == getHeight(lastElementIdx) > height

\* the merge loop going on while the next position is as high as height
mergeDueEager(lastElementIdx, height) == getHeight(lastElementIdx + 1) >= height

\* the condition of append's merge loop
mergeDue(lastElementIdx, height) == getHeight(lastElementIdx + 1) > height

\* parentHash hashing the left peak twice
parentHashLeftTwice(leftHash, rightHash) == PoseidonHash(leftHash, leftHash)

\* the hash append stores at a merged position
parentHash(leftHash, rightHash) == PoseidonHash(leftHash, rightHash)

\* The merge loop of append, from the state (lastElementIdx, peaks, hashes,
\* height); thrown is TRUE when it ends in 'Not enough elements in peaks to pop'.
\* written lists the positions of hashes assigned so far by the call, and
\* height, counted up once a pass, is the number of passes made.
RECURSIVE appendMerge(_, _, _, _, _)
appendMerge(lastElementIdx, peaks, hashes, height, written) ==
  IF ~mergeDue(lastElementIdx, height)
  THEN [thrown |-> FALSE, lastElementIdx |-> lastElementIdx,
        peaks |-> peaks, hashes |-> hashes,
        height |-> height, written |-> written]
  ELSE IF Len(peaks) < 2
  THEN [thrown |-> TRUE, lastElementIdx |-> lastElementIdx + 1,
        peaks |-> peaks, hashes |-> hashes,
        height |-> height, written |-> written]
  ELSE LET rightHash == peaks[Len(peaks)]
           leftHash == peaks[Len(peaks) - 1]
       IN appendMerge(lastElementIdx + 1,
                      Append(SubSeq(peaks, 1, Len(peaks) - 2),
                             parentHash(leftHash, rightHash)),
                      hashPut(hashes, lastElementIdx + 1,
                              parentHash(leftHash, rightHash)),
                      height + 1,
                      Append(written, lastElementIdx + 1))

\* appendFinish returning the last position written as elementIndex
appendFinishLastIndex(m, leafElementIndex, merged) ==
  [thrown |-> merged.thrown,
   mmr |-> [leavesCount |-> m.leavesCount + 1,
            elementsCount |-> merged.lastElementIdx,
            hashes |-> merged.hashes,
            rootHash |-> calculateRootHash(bagThePeaks(merged.peaks),
                                           merged.lastElementIdx)],
   leavesCount |-> m.leavesCount + 1,
   elementsCount |-> merged.lastElementIdx,
   elementIndex |-> merged.lastElementIdx,
   rootHash |-> calculateRootHash(bagThePeaks(merged.peaks),
                                  merged.lastElementIdx),
   merges |-> merged.height, written |-> merged.written]

\* what append does once its merge loop has ended in merged: it stores the
\* counters and the root and returns them, or has thrown out of the loop
appendFinish(m, leafElementIndex, merged) ==
  IF merged.thrown
  THEN [thrown |-> TRUE,
        mmr |-> [m EXCEPT !.hashes = merged.hashes],
        leavesCount |-> 0, elementsCount |-> 0, elementIndex |-> 0,
        rootHash |-> Field(0),
        merges |-> merged.height, written |-> merged.written]
  ELSE [thrown |-> FALSE,
        mmr |-> [leavesCount |-> m.leavesCount + 1,
                 elementsCount |-> merged.lastElementIdx,
                 hashes |-> merged.hashes,
                 rootHash |-> calculateRootHash(bagThePeaks(merged.peaks),
                                                merged.lastElementIdx)],
        leavesCount |-> m.leavesCount + 1,
        elementsCount |-> merged.lastElementIdx,
        elementIndex |-> leafElementIndex,
        rootHash |-> calculateRootHash(bagThePeaks(merged.peaks),
                                       merged.lastElementIdx),
        merges |-> merged.height, written |-> merged.written]

\* append(value) on store m: the store afterwards, whether the call threw,
\* and the object it returns
append(m, value) ==
  appendFinish(m, m.elementsCount + 1,
               appendMerge(m.elementsCount + 1,
                           Append(retrievePeaksHashes(m, findPeaks(m.elementsCount)),
                                  value),
                           hashPut(m.hashes, m.elementsCount + 1, value),
                           0,
                           <<m.elementsCount + 1>>))

\* clear leaving the stored hashes in place
clearKeepsHashes(m) ==
  [leavesCount |-> 0, elementsCount |-> 0, hashes |-> m.hashes,
   rootHash |-> Field(0)]

clear(m) ==
  [leavesCount |-> 0,
   elementsCount |-> 0,
   hashes |-> <<>>,
   rootHash |-> Field(0)]

---------------------------------------------------------------------------
(* Proofs *)

NoProof ==
  [elementIndex |-> 0, elementHash |-> Field(0), siblingsHashes |-> <<>>,
   peaksHashes |-> <<>>, elementsCount |-> 0]

\* the right-child test of getProof and verifyProof
isRight(index) == getHeight(index + 1) = getHeight(index) + 1

\* the position getProof and verifyProof climb to from index
climbNext(index) ==
  IF isRight(index) THEN index + 1
  ELSE index + parentOffset(getHeight(index))

\* the sibling position getProof records at index
siblingOf(index) ==
  IF isRight(index) THEN index - siblingOffset(getHeight(index))
  ELSE index + siblingOffset(getHeight(index))

\* the while loop of getProof: the sibling positions from index up to a peak
RECURSIVE getProofSiblings(_, _, _)
getProofSiblings(peaks, index, siblings) ==
  IF \E k \in 1..Len(peaks) : peaks[k] = index THEN siblings
  ELSE getProofSiblings(peaks, climbNext(index),
                        Append(siblings, siblingOf(index)))

\* getProof refusing the last position of the store as well
getProofStrictUpper(m, leafIndex) ==
  IF leafIndex < 1 \/ leafIndex >= m.elementsCount
  THEN [thrown |-> TRUE, proof |-> NoProof]
  ELSE [thrown |-> FALSE,
        proof |->
          [elementIndex |-> leafIndex,
           elementHash |-> hashAt(m.hashes, leafIndex),
           siblingsHashes |->
             [k \in 1..Len(getProofSiblings(findPeaks(m.elementsCount),
                                            leafIndex, <<>>)) |->
                hashAt(m.hashes,
                       getProofSiblings(findPeaks(m.elementsCount),
                                        leafIndex, <<>>)[k])],
           peaksHashes |-> retrievePeaksHashes(m, findPeaks(m.elementsCount)),
           elementsCount |-> m.elementsCount]]

\* getProof(leafIndex) on store m: thrown, or the Proof
getProof(m, leafIndex) ==
  IF leafIndex < 1 THEN [thrown |-> TRUE, proof |-> NoProof]
  ELSE IF leafIndex > m.elementsCount THEN [thrown |-> TRUE, proof |-> NoProof]
  ELSE LET treeSize == m.elementsCount
           peaks == findPeaks(treeSize)
           siblings == getProofSiblings(peaks, leafIndex, <<>>)
       IN [thrown |-> FALSE,
           proof |->
             [elementIndex |-> leafIndex,
              elementHash |-> hashAt(m.hashes, leafIndex),
              siblingsHashes |->
                [k \in 1..Len(siblings) |-> hashAt(m.hashes, siblings[k])],
              peaksHashes |-> retrievePeaksHashes(m, peaks),
              elementsCount |-> treeSize]]

\* UInt64: a value of 2^63 and above is written as that value less 2^64, so
\* that UInt64.MAXINT() = 2^64 - 1 is written -1
MAXINT == -1

\* x.lessThan(y) on UInt64
lessThan(x, y) == IF (x < 0) = (y < 0) THEN x < y ELSE y < 0

\* x.greaterThan(y) on UInt64
greaterThan(x, y) == lessThan(y, x)

\* x.add(y) on UInt64 throws: the sum is 2^64 or more
addOverflows(x, y) ==
  \/ x < 0 /\ y < 0
  \/ (x < 0) # (y < 0) /\ x + y >= 0

\* the for loop of verifyProof and preprocess throws, from its i-th iteration
\* on and climbing from elementIndex: elementIndex.add(UInt64.one), the first
\* thing an iteration evaluates, leaves the range of UInt64
RECURSIVE verifyClimbThrows(_, _, _)
verifyClimbThrows(siblingsHashes, i, elementIndex) ==
  IF i > Len(siblingsHashes) THEN FALSE
  ELSE IF addOverflows(elementIndex, 1) THEN TRUE
  ELSE verifyClimbThrows(siblingsHashes, i + 1, climbNext(elementIndex))

\* the while loop of getProof: the positions index takes, from index up to
\* the peak it stops at
RECURSIVE getProofIndices(_, _, _)
getProofIndices(peaks, index, visited) ==
  IF \E k \in 1..Len(peaks) : peaks[k] = index THEN Append(visited, index)
  ELSE getProofIndices(peaks, climbNext(index), Append(visited, index))

\* the for loop of verifyProof and preprocess: the positions elementIndex
\* takes, from the i-th iteration on
RECURSIVE verifyClimbIndices(_, _, _, _)
verifyClimbIndices(siblingsHashes, i, elementIndex, visited) ==
  IF i > Len(siblingsHashes) THEN Append(visited, elementIndex)
  ELSE verifyClimbIndices(siblingsHashes, i + 1, climbNext(elementIndex),
                          Append(visited, elementIndex))

\* verifyClimb with the operands of every hash exchanged
RECURSIVE verifyClimbSwapped(_, _, _, _)
verifyClimbSwapped(siblingsHashes, i, elementIndex, hash) ==
  IF i > Len(siblingsHashes) THEN hash
  ELSE verifyClimbSwapped(siblingsHashes, i + 1, climbNext(elementIndex),
                          IF isRight(elementIndex)
                          THEN PoseidonHash(hash, siblingsHashes[i])
                          ELSE PoseidonHash(siblingsHashes[i], hash))

\* the for loop of verifyProof and preprocess: the hash after the siblings
\* from the i-th on are folded into hash, climbing from elementIndex
RECURSIVE verifyClimb(_, _, _, _)
verifyClimb(siblingsHashes, i, elementIndex, hash) ==
  IF i > Len(siblingsHashes) THEN hash
  ELSE verifyClimb(siblingsHashes, i + 1, climbNext(elementIndex),
                   IF isRight(elementIndex)
                   THEN PoseidonHash(siblingsHashes[i], hash)
                   ELSE PoseidonHash(hash, siblingsHashes[i]))

\* peaksHashes.map(peakHash => peakHash.equals(hash) ? hash : peakHash)
reconstructedPeaks(peaksHashes, hash) ==
  [k \in 1..Len(peaksHashes) |->
     IF peaksHashes[k] = hash THEN hash ELSE peaksHashes[k]]

\* verifyProof answering whether the climbed hash is among the proof's peaks,
\* never comparing with the store's root
verifyProofInPeaks(m, leaf, p) ==
  IF p.elementIndex < 1 THEN [thrown |-> TRUE, ok |-> FALSE]
  ELSE IF p.elementIndex > p.elementsCount THEN [thrown |-> TRUE, ok |-> FALSE]
  ELSE [thrown |-> FALSE,
        ok |-> \E k \in 1..Len(p.peaksHashes) :
                 p.peaksHashes[k] =
                   verifyClimb(p.siblingsHashes, 1, p.elementIndex, leaf)]

\* verifyProof hashing the proof's elementIndex in place of its elementsCount
verifyProofIndexCount(m, leaf, p) ==
  IF p.elementIndex < 1 THEN [thrown |-> TRUE, ok |-> FALSE]
  ELSE IF p.elementIndex > p.elementsCount THEN [thrown |-> TRUE, ok |-> FALSE]
  ELSE [thrown |-> FALSE,
        ok |-> calculateRootHash(
                 bagThePeaks(reconstructedPeaks(p.peaksHashes,
                   verifyClimb(p.siblingsHashes, 1, p.elementIndex, leaf))),
                 p.elementIndex) = m.rootHash]

\* verifyProof checking the index against the store's elementsCount
verifyProofStoreRange(m, leaf, p) ==
  IF lessThan(p.elementIndex, 1) THEN [thrown |-> TRUE, ok |-> FALSE]
  ELSE IF greaterThan(p.elementIndex, m.elementsCount)
  THEN [thrown |-> TRUE, ok |-> FALSE]
  ELSE IF verifyClimbThrows(p.siblingsHashes, 1, p.elementIndex)
  THEN [thrown |-> TRUE, ok |-> FALSE]
  ELSE [thrown |-> FALSE,
        ok |-> calculateRootHash(
                 bagThePeaks(reconstructedPeaks(p.peaksHashes,
                   verifyClimb(p.siblingsHashes, 1, p.elementIndex, leaf))),
                 p.elementsCount) = m.rootHash]

\* verifyProof looking the leaf up in the store's hashes
verifyProofStoredLeaf(m, leaf, p) ==
  IF lessThan(p.elementIndex, 1) THEN [thrown |-> TRUE, ok |-> FALSE]
  ELSE IF greaterThan(p.elementIndex, p.elementsCount)
  THEN [thrown |-> TRUE, ok |-> FALSE]
  ELSE IF verifyClimbThrows(p.siblingsHashes, 1, p.elementIndex)
  THEN [thrown |-> TRUE, ok |-> FALSE]
  ELSE [thrown |-> FALSE,
        ok |-> /\ hashAt(m.hashes, p.elementIndex) = leaf
               /\ calculateRootHash(
                    bagThePeaks(reconstructedPeaks(p.peaksHashes,
                      verifyClimb(p.siblingsHashes, 1, p.elementIndex, leaf))),
                    p.elementsCount) = m.rootHash]

\* verifyProof(leaf, p) on store m: thrown, or the Bool it returns
verifyProof(m, leaf, p) ==
  IF lessThan(p.elementIndex, 1) THEN [thrown |-> TRUE, ok |-> FALSE]
  ELSE IF greaterThan(p.elementIndex, p.elementsCount)
  THEN [thrown |-> TRUE, ok |-> FALSE]
  ELSE IF verifyClimbThrows(p.siblingsHashes, 1, p.elementIndex)
  THEN [thrown |-> TRUE, ok |-> FALSE]
  ELSE LET hash == verifyClimb(p.siblingsHashes, 1, p.elementIndex, leaf)
           baggedHash == bagThePeaks(reconstructedPeaks(p.peaksHashes, hash))
           recomputedRootHash == calculateRootHash(baggedHash, p.elementsCount)
       IN [thrown |-> FALSE, ok |-> recomputedRootHash = m.rootHash]

\* preprocess(leaf, p) on store m: thrown, or the bagged hash it returns
preprocess(m, leaf, p) ==
  IF lessThan(p.elementIndex, 1) THEN [thrown |-> TRUE, bagged |-> Field(0)]
  ELSE IF greaterThan(p.elementIndex, p.elementsCount)
  THEN [thrown |-> TRUE, bagged |-> Field(0)]
  ELSE IF verifyClimbThrows(p.siblingsHashes, 1, p.elementIndex)
  THEN [thrown |-> TRUE, bagged |-> Field(0)]
  ELSE LET hash == verifyClimb(p.siblingsHashes, 1, p.elementIndex, leaf)
           baggedHash == bagThePeaks(reconstructedPeaks(p.peaksHashes, hash))
       IN [thrown |-> FALSE, bagged |-> baggedHash]

---------------------------------------------------------------------------
(* MMRContract *)

\* padArray(arr, length): arr filled up with Field(0) to length entries
padArray(arr, length) ==
  [k \in 1..(IF Len(arr) < length THEN length ELSE Len(arr)) |->
     IF k <= Len(arr) THEN arr[k] ELSE Field(0)]

\* the MMRProof a caller builds from the Proof p
MMRProof(p) ==
  [p EXCEPT !.siblingsHashes = padArray(p.siblingsHashes, ProofArrayLength),
            !.peaksHashes = padArray(p.peaksHashes, ProofArrayLength)]

\* the two loops of verifyInclusion: hash folded with the entries of list
\* from the i-th on, the zero entries skipped
RECURSIVE inclusionChain(_, _, _)
inclusionChain(list, i, hash) ==
  IF i > Len(list) THEN hash
  ELSE inclusionChain(list, i + 1,
                      IF list[i] = Field(0) THEN hash
                      ELSE PoseidonHash(hash, list[i]))

\* verifyInclusion(leaf, mmrproof, baggedHash) with mmrRoot = rootStored:
\* the computedRoot it chains, and whether its assertion passes
verifyInclusion(rootStored, leaf, mmrproof, baggedHash) ==
  LET hash == inclusionChain(mmrproof.siblingsHashes, 1, leaf)
      computedRoot == inclusionChain(mmrproof.peaksHashes, 1, hash)
      finalRoot == PoseidonHash(Field(mmrproof.elementsCount), baggedHash)
  IN [computedRoot |-> computedRoot, ok |-> finalRoot = rootStored]

---------------------------------------------------------------------------
(* Calls.  call records the last call made on mmr: its name, the index,    *)
(* leaf and proof it was given or returned, whether it threw, the Bool     *)
(* verifyProof returned, the list getPeaks returned, the object append     *)
(* returned, the passes its merge loop made and the positions it wrote.    *)

NoRet == [leavesCount |-> 0, elementsCount |-> 0, elementIndex |-> 0,
          rootHash |-> Field(0)]

NoCall ==
  [op |-> "new", index |-> 0, leaf |-> Field(0), proof |-> NoProof,
   thrown |-> FALSE, ok |-> FALSE, peaks |-> <<>>, ret |-> NoRet,
   bagged |-> Field(0), value |-> 0, merges |-> 0, written |-> <<>>,
   right |-> FALSE, sibling |-> 0, parent |-> 0]

Range(seq) == {seq[k] : k \in 1..Len(seq)}

\* hashes a caller may put in place of an entry of a proof
HashPool ==
  {Field(v) : v \in Values} \cup Range(getPeaks(mmr)) \cup {proof.elementHash}

\* proof with one entry of siblingsHashes replaced by another hash
SiblingTampers ==
  {[proof EXCEPT !.siblingsHashes[k] = h] :
     k \in 1..Len(proof.siblingsHashes), h \in HashPool} \ {proof}

\* proof with one entry of peaksHashes replaced by another hash
PeakTampers ==
  {[proof EXCEPT !.peaksHashes[k] = h] :
     k \in 1..Len(proof.peaksHashes), h \in HashPool} \ {proof}

\* the (leaf, proof) pairs verifyProof is called with: the held proof with any
\* leaf value, and the proof's own element with a tampered proof
VerifyInputs ==
  {<<l, proof>> : l \in {Field(v) : v \in Values} \cup {proof.elementHash}}
    \cup {<<proof.elementHash, q>> : q \in SiblingTampers \cup PeakTampers}

\* lists of hashes a caller may put in a proof: of no, one and two entries
HashLists == {<<>>, <<Field(0)>>, <<Field(1)>>, <<Field(1), Field(0)>>}

\* the positions and counts a caller may put in a proof
ProofCounts == {0, 1, mmr.elementsCount, mmr.elementsCount + 1, MAXINT}

\* the proofs a caller may hand to verifyProof, whatever the store returned
AnyProofs ==
  [elementIndex : ProofCounts,
   elementHash : {Field(0)},
   siblingsHashes : HashLists,
   peaksHashes : {<<>>, <<Field(1), Field(0)>>, getPeaks(mmr)},
   elementsCount : ProofCounts]

---------------------------------------------------------------------------
(* Actions *)

\* pc before any append or clear was begun: op is the method, step the
\* statement it stands at ("done" once it has returned), before the store as
\* the call found it, and lastElementIdx, peaks, height the locals of append
NoStep ==
  [op |-> "new", step |-> "done", value |-> Field(0), before |-> NewMmr,
   lastElementIdx |-> 0, peaks |-> <<>>, height |-> 0]

Init ==
  /\ mmr = NewMmr
  /\ log = <<>>
  /\ proof = NoProof
  /\ proofAge = 0
  /\ call = NoCall
  /\ cleared = FALSE
  /\ other = NewMmr
  /\ otherLog = <<>>
  /\ mmrRoot = Field(0)
  /\ pc = NoStep

\* mmr.append(Field(v)), while the store holds fewer than max leaves
AppendValue(max, v) ==
  /\ mmr.leavesCount < max
  /\ \E r \in {append(mmr, Field(v))} :
        /\ mmr' = r.mmr
        /\ log' = IF r.thrown THEN log ELSE Append(log, v)
        /\ call' = [NoCall EXCEPT !.op = "append", !.leaf = Field(v),
                      !.thrown = r.thrown,
                      !.merges = r.merges, !.written = r.written,
                      !.ret = [leavesCount |-> r.leavesCount,
                               elementsCount |-> r.elementsCount,
                               elementIndex |-> r.elementIndex,
                               rootHash |-> r.rootHash]]
  /\ proofAge' = IF proof = NoProof THEN 0 ELSE proofAge + 1
  /\ UNCHANGED <<proof, cleared, other, otherLog, mmrRoot, pc>>

\* mmr.clear(); the caller drops the proof it holds
Clear ==
  /\ mmr' = clear(mmr)
  /\ log' = <<>>
  /\ proof' = NoProof
  /\ proofAge' = 0
  /\ call' = [NoCall EXCEPT !.op = "clear"]
  /\ cleared' = TRUE
  /\ UNCHANGED <<other, otherLog, mmrRoot, pc>>

\* storeAfterRead leaving the store emptied of its elements
storeAfterReadReset(m) == [m EXCEPT !.elementsCount = 0]

\* The store after getProof, getPeaks, verifyProof or preprocess has run on
\* store m, returning or throwing: none of them assigns a field of this, and
\* bagThePeaks reverses a copy of the peaks it is given.
storeAfterRead(m) == m

\* The Proof object p after verifyProof or preprocess was handed it: both
\* destructure it and reassign only their local elementIndex.
proofAfterVerify(p) == p

\* mmr.getProof(i); the caller keeps the proof returned
GetProof(i) ==
  /\ \E r \in {getProof(mmr, i)} :
        /\ proof' = IF r.thrown THEN proof ELSE r.proof
        /\ proofAge' = IF r.thrown THEN proofAge ELSE 0
        /\ call' = [NoCall EXCEPT !.op = "getProof", !.index = i,
                      !.thrown = r.thrown, !.proof = r.proof]
  /\ mmr' = storeAfterRead(mmr)
  /\ UNCHANGED <<log, cleared, other, otherLog, mmrRoot, pc>>

\* mmr.verifyProof(leaf, p)
VerifyProof(leaf, p) ==
  /\ \E r \in {verifyProof(mmr, leaf, p)} :
        call' = [NoCall EXCEPT !.op = "verifyProof", !.leaf = leaf,
                   !.proof = p, !.thrown = r.thrown, !.ok = r.ok]
  /\ mmr' = storeAfterRead(mmr)
  /\ proof' = IF p = proof THEN proofAfterVerify(p) ELSE proof
  /\ UNCHANGED <<log, proofAge, cleared, other, otherLog, mmrRoot, pc>>

\* mmr.preprocess(leaf, p)
Preprocess(leaf, p) ==
  /\ \E r \in {preprocess(mmr, leaf, p)} :
        call' = [NoCall EXCEPT !.op = "preprocess", !.leaf = leaf,
                   !.proof = p, !.thrown = r.thrown, !.bagged = r.bagged]
  /\ mmr' = storeAfterRead(mmr)
  /\ proof' = IF p = proof THEN proofAfterVerify(p) ELSE proof
  /\ UNCHANGED <<log, proofAge, cleared, other, otherLog, mmrRoot, pc>>

\* mmr.getPeaks()
GetPeaks ==
  /\ call' = [NoCall EXCEPT !.op = "getPeaks", !.peaks = getPeaks(mmr)]
  /\ mmr' = storeAfterRead(mmr)
  /\ UNCHANGED <<log, proof, proofAge, cleared, other, otherLog, mmrRoot, pc>>

\* other.append(Field(v))
AppendOther(v) ==
  /\ other.leavesCount < MaxPairLeaves
  /\ \E r \in {append(other, Field(v))} :
        /\ other' = r.mmr
        /\ otherLog' = IF r.thrown THEN otherLog ELSE Append(otherLog, v)
  /\ UNCHANGED <<mmr, log, proof, proofAge, call, cleared, mmrRoot, pc>>

\* one store, with proofs taken, kept across appends, tampered and verified
Next ==
  \/ \E v \in Values : AppendValue(MaxLeaves, v)
  \/ Clear
  \/ \E i \in 0..(mmr.elementsCount + 1) : GetProof(i)
  \/ \E arg \in VerifyInputs : VerifyProof(arg[1], arg[2])
  \/ GetPeaks

Spec == Init /\ [][Next]_vars

\* one store, appended to and cleared
NextStore ==
  \/ \E v \in Values : AppendValue(MaxStoreLeaves, v)
  \/ Clear

SpecStore == Init /\ [][NextStore]_vars

\* two stores appended to independently, the first one also cleared
NextPair ==
  \/ \E v \in Values : AppendValue(MaxPairLeaves, v)
  \/ \E v \in Values : AppendOther(v)
  \/ Clear

SpecPair == Init /\ [][NextPair]_vars

\* mmrZkApp.updateRoot(newRoot)
UpdateRoot(newRoot) ==
  /\ mmrRoot' = newRoot
  /\ call' = [NoCall EXCEPT !.op = "updateRoot", !.leaf = newRoot]
  /\ UNCHANGED <<mmr, log, proof, proofAge, cleared, other, otherLog, pc>>

\* mmrZkApp.verifyInclusion(leaf, new MMRProof(...), baggedHash), the proof
\* being the one the caller holds
VerifyInclusion(leaf, baggedHash) ==
  /\ proof # NoProof
  /\ \E r \in {verifyInclusion(mmrRoot, leaf, MMRProof(proof), baggedHash)} :
        call' = [NoCall EXCEPT !.op = "verifyInclusion", !.leaf = leaf,
                   !.proof = MMRProof(proof), !.bagged = baggedHash,
                   !.ok = r.ok]
  /\ UNCHANGED <<mmr, log, proof, proofAge, cleared, other, otherLog, mmrRoot, pc>>

\* the store and the contract: the root published, and inclusion verified
\* with the baggedHash preprocess returns
NextContract ==
  \/ \E v \in Values : AppendValue(MaxContractLeaves, v)
  \/ \E i \in 1..mmr.elementsCount : GetProof(i)
  \/ \E newRoot \in {mmr.rootHash, Field(1)} : UpdateRoot(newRoot)
  \/ \E v \in Values :
        \E r \in {preprocess(mmr, Field(v), proof)} :
           ~r.thrown /\ VerifyInclusion(Field(v), r.bagged)

SpecContract == Init /\ [][NextContract]_vars

\* getHeight(UInt64.from(p))
GetHeight(p) ==
  /\ call' = [NoCall EXCEPT !.op = "getHeight", !.index = p,
                             !.value = getHeight(p)]
  /\ UNCHANGED <<mmr, log, proof, proofAge, cleared, other, otherLog, mmrRoot, pc>>

\* one pass of the while loop of getProof at index p: its isRight, the sib
\* it records and the index it goes on to
ClimbStep(p) ==
  /\ call' = [NoCall EXCEPT !.op = "climb", !.index = p,
                             !.value = getHeight(p),
                             !.right = isRight(p),
                             !.sibling = siblingOf(p),
                             !.parent = climbNext(p)]
  /\ UNCHANGED <<mmr, log, proof, proofAge, cleared, other, otherLog, mmrRoot, pc>>

\* the position arithmetic, applied to every position up to MaxPosition
NextArith ==
  \/ \E p \in 1..MaxPosition : GetHeight(p)
  \/ \E p \in 1..MaxPosition : ClimbStep(p)

SpecArith == Init /\ [][NextArith]_vars

\* one store, and verifyProof called with any leaf and any proof
NextVerify ==
  \/ \E v \in Values : AppendValue(MaxVerifyLeaves, v)
  \/ \E v \in Values, p \in AnyProofs : VerifyProof(Field(v), p)

SpecVerify == Init /\ [][NextVerify]_vars

\* the proofs handed to verifyProof and preprocess: the one getProof returned,
\* and copies of it whose elementIndex fails a range check
ReadProofs ==
  {proof, [proof EXCEPT !.elementIndex = 0],
   [proof EXCEPT !.elementIndex = proof.elementsCount + 1]}

\* one store, and every reading call made on it, returning or throwing
NextRead ==
  \/ \E v \in Values : AppendValue(MaxReadLeaves, v)
  \/ \E i \in 0..(mmr.elementsCount + 1) : GetProof(i)
  \/ GetPeaks
  \/ \E v \in Values, p \in ReadProofs : VerifyProof(Field(v), p)
  \/ \E v \in Values, p \in ReadProofs : Preprocess(Field(v), p)

SpecRead == Init /\ [][NextRead]_vars

\* a method of the store being entered while another statement of it runs
callMayStartAnytime(p) == TRUE

\* Whether a method of the store may be entered when the last append or clear
\* stands at p: append and clear are synchronous methods without await or
\* callback, so they run to their return before any other call is made.
callMayStart(p) == p.step = "done"

\* the store the call recorded in p leaves when it has returned
callAfter(p) ==
  CASE p.op = "append" -> append(p.before, p.value).mmr
    [] p.op = "clear" -> clear(p.before)
    [] OTHER -> p.before

\* append(Field(v)) up to its loop: the peaks are read, the leaf is stored at
\* the old elementsCount + 1 and pushed on the peaks
AppendBegin(v) ==
  /\ callMayStart(pc)
  /\ mmr.leavesCount < MaxStepLeaves
  /\ mmr' = [mmr EXCEPT
               !.hashes = hashPut(mmr.hashes, mmr.elementsCount + 1, Field(v))]
  /\ pc' = [op |-> "append", step |-> "merge", value |-> Field(v),
            before |-> mmr, lastElementIdx |-> mmr.elementsCount + 1,
            peaks |-> Append(retrievePeaksHashes(mmr, findPeaks(mmr.elementsCount)),
                             Field(v)),
            height |-> 0]
  /\ call' = [NoCall EXCEPT !.op = "append", !.leaf = Field(v)]
  /\ UNCHANGED <<log, proof, proofAge, cleared, other, otherLog, mmrRoot>>

\* one pass of the merge loop of append: the parent of the last two peaks is
\* stored at the next position, or the call throws for want of two peaks
AppendMergePass ==
  /\ pc.op = "append" /\ pc.step = "merge"
  /\ mergeDue(pc.lastElementIdx, pc.height)
  /\ IF Len(pc.peaks) < 2
     THEN /\ pc' = [pc EXCEPT !.step = "done",
                              !.lastElementIdx = pc.lastElementIdx + 1]
          /\ call' = [call EXCEPT !.thrown = TRUE]
          /\ mmr' = mmr
     ELSE /\ mmr' = [mmr EXCEPT
                       !.hashes = hashPut(mmr.hashes, pc.lastElementIdx + 1,
                                          parentHash(pc.peaks[Len(pc.peaks) - 1],
                                                     pc.peaks[Len(pc.peaks)]))]
          /\ pc' = [pc EXCEPT
                      !.lastElementIdx = pc.lastElementIdx + 1,
                      !.peaks = Append(SubSeq(pc.peaks, 1, Len(pc.peaks) - 2),
                                       parentHash(pc.peaks[Len(pc.peaks) - 1],
                                                  pc.peaks[Len(pc.peaks)])),
                      !.height = pc.height + 1]
          /\ call' = call
  /\ UNCHANGED <<log, proof, proofAge, cleared, other, otherLog, mmrRoot>>

\* this.elementsCount = lastElementIdx, once the loop has ended
AppendSetElementsCount ==
  /\ pc.op = "append" /\ pc.step = "merge"
  /\ ~mergeDue(pc.lastElementIdx, pc.height)
  /\ mmr' = [mmr EXCEPT !.elementsCount = pc.lastElementIdx]
  /\ pc' = [pc EXCEPT !.step = "rootHash"]
  /\ UNCHANGED <<log, proof, proofAge, call, cleared, other, otherLog, mmrRoot>>

\* this.rootHash = calculateRootHash(bagThePeaks(peaks), lastElementIdx)
AppendSetRootHash ==
  /\ pc.op = "append" /\ pc.step = "rootHash"
  /\ mmr' = [mmr EXCEPT
               !.rootHash = calculateRootHash(bagThePeaks(pc.peaks),
                                              pc.lastElementIdx)]
  /\ pc' = [pc EXCEPT !.step = "leavesCount"]
  /\ UNCHANGED <<log, proof, proofAge, call, cleared, other, otherLog, mmrRoot>>

\* this.leavesCount = this.leavesCount.add(UInt64.one), and the return
AppendSetLeavesCount ==
  /\ pc.op = "append" /\ pc.step = "leavesCount"
  /\ mmr' = [mmr EXCEPT !.leavesCount = mmr.leavesCount + 1]
  /\ pc' = [pc EXCEPT !.step = "done"]
  /\ log' = Append(log, pc.value[1])
  /\ call' = [call EXCEPT
                !.merges = pc.height,
                !.ret = [leavesCount |-> mmr.leavesCount + 1,
                         elementsCount |-> mmr.elementsCount,
                         elementIndex |-> pc.before.elementsCount + 1,
                         rootHash |-> mmr.rootHash]]
  /\ proofAge' = IF proof = NoProof THEN 0 ELSE proofAge + 1
  /\ UNCHANGED <<proof, cleared, other, otherLog, mmrRoot>>

\* clear() up to this.leavesCount = UInt64.zero
ClearBegin ==
  /\ callMayStart(pc)
  /\ mmr' = [mmr EXCEPT !.leavesCount = 0]
  /\ pc' = [NoStep EXCEPT !.op = "clear", !.step = "elementsCount",
                          !.before = mmr]
  /\ call' = [NoCall EXCEPT !.op = "clear"]
  /\ UNCHANGED <<log, proof, proofAge, cleared, other, otherLog, mmrRoot>>

\* this.elementsCount = UInt64.zero
ClearSetElementsCount ==
  /\ pc.op = "clear" /\ pc.step = "elementsCount"
  /\ mmr' = [mmr EXCEPT !.elementsCount = 0]
  /\ pc' = [pc EXCEPT !.step = "hashes"]
  /\ UNCHANGED <<log, proof, proofAge, call, cleared, other, otherLog, mmrRoot>>

\* this.hashes = newHashes, the copy filled with Field(0)
ClearSetHashes ==
  /\ pc.op = "clear" /\ pc.step = "hashes"
  /\ mmr' = [mmr EXCEPT !.hashes = clear(mmr).hashes]
  /\ pc' = [pc EXCEPT !.step = "rootHash"]
  /\ UNCHANGED <<log, proof, proofAge, call, cleared, other, otherLog, mmrRoot>>

\* this.rootHash = Field(0), and the return
ClearSetRootHash ==
  /\ pc.op = "clear" /\ pc.step = "rootHash"
  /\ mmr' = [mmr EXCEPT !.rootHash = Field(0)]
  /\ pc' = [pc EXCEPT !.step = "done"]
  /\ log' = <<>>
  /\ proof' = NoProof
  /\ proofAge' = 0
  /\ cleared' = TRUE
  /\ UNCHANGED <<call, other, otherLog, mmrRoot>>

\* one store whose append and clear run statement by statement, and the
\* reading calls made on it
NextSteps ==
  \/ \E v \in Values : AppendBegin(v)
  \/ AppendMergePass
  \/ AppendSetElementsCount
  \/ AppendSetRootHash
  \/ AppendSetLeavesCount
  \/ ClearBegin
  \/ ClearSetElementsCount
  \/ ClearSetHashes
  \/ ClearSetRootHash
  \/ callMayStart(pc) /\ \E i \in 1..mmr.elementsCount : GetProof(i)
  \/ callMayStart(pc) /\ GetPeaks

SpecSteps == Init /\ [][NextSteps]_vars

---------------------------------------------------------------------------
(* Properties of proofs (checked under Spec) *)

\* the held proof was returned by getProof on the store as it is now
Fresh == proof # NoProof /\ proofAge = 0

\* the last call verified the held proof's own element
OwnLeaf ==
  /\ call.op = "verifyProof"
  /\ proof # NoProof
  /\ call.leaf = hashAt(mmr.hashes, proof.elementIndex)

\* q is p with exactly one entry of siblingsHashes replaced
OneSiblingReplaced(q, p) ==
  /\ q.elementIndex = p.elementIndex
  /\ q.elementHash = p.elementHash
  /\ q.elementsCount = p.elementsCount
  /\ q.peaksHashes = p.peaksHashes
  /\ Len(q.siblingsHashes) = Len(p.siblingsHashes)
  /\ Cardinality({k \in 1..Len(p.siblingsHashes) :
                    q.siblingsHashes[k] # p.siblingsHashes[k]}) = 1

\* q is p with exactly one entry of peaksHashes replaced
OnePeakReplaced(q, p) ==
  /\ q.elementIndex = p.elementIndex
  /\ q.elementHash = p.elementHash
  /\ q.elementsCount = p.elementsCount
  /\ q.siblingsHashes = p.siblingsHashes
  /\ Len(q.peaksHashes) = Len(p.peaksHashes)
  /\ Cardinality({k \in 1..Len(p.peaksHashes) :
                    q.peaksHashes[k] # p.peaksHashes[k]}) = 1

\* C1: verifyProof(hashes[i], getProof(i)), called on the store the proof was
\* taken from with no append in between, returns true, for every position i
\* of 1..elementsCount.
C1_OwnProofVerifies ==
  (OwnLeaf /\ Fresh /\ call.proof = proof) => (~call.thrown /\ call.ok)

C1_Witness ==
  /\ OwnLeaf /\ Fresh /\ call.proof = proof
  /\ call.ok
  /\ Len(proof.siblingsHashes) >= 1
  /\ Len(proof.peaksHashes) >= 2

\* C2: with one entry of siblingsHashes of a fresh proof replaced by a
\* different hash, verifyProof(hashes[i], p) returns false.
C2_SiblingTamperRejected ==
  (OwnLeaf /\ Fresh /\ OneSiblingReplaced(call.proof, proof))
    => (~call.thrown /\ ~call.ok)

\* C3: with a leaf value other than the one stored at position i,
\* verifyProof(v, getProof(i)) returns false; it returns true only when the
\* hash climbed from the leaf through siblingsHashes is one of peaksHashes.
C3_WrongLeafRejected ==
  /\ (/\ call.op = "verifyProof" /\ Fresh /\ call.proof = proof
      /\ call.leaf # hashAt(mmr.hashes, proof.elementIndex))
       => (~call.thrown /\ ~call.ok)
  /\ (call.op = "verifyProof" /\ ~call.thrown /\ call.ok)
       => verifyClimb(call.proof.siblingsHashes, 1, call.proof.elementIndex,
                      call.leaf) \in Range(call.proof.peaksHashes)

\* C4: with one entry of peaksHashes of a fresh proof replaced by a different
\* hash, verifyProof(hashes[i], p) returns false.
C4_PeakTamperRejected ==
  (OwnLeaf /\ Fresh /\ OnePeakReplaced(call.proof, proof))
    => (~call.thrown /\ ~call.ok)

C4_Witness ==
  /\ OwnLeaf /\ Fresh /\ OnePeakReplaced(call.proof, proof)
  /\ ~call.thrown /\ ~call.ok
  /\ Len(proof.peaksHashes) >= 2

---------------------------------------------------------------------------
(* The shape of the range, stated without the code's position arithmetic:  *)
(* n elements split greedily into perfect trees of 2^(h+1)-1 positions,    *)
(* each with its root at its last position.                                *)

\* the height of the largest perfect tree of at most r positions (r >= 1)
RefLargest(r) ==
  CHOOSE h \in 0..r : 2^(h + 1) - 1 <= r /\ 2^(h + 2) - 1 > r

\* the mountains of r more positions after position base: <<peak, height>>
RECURSIVE RefMountainsFrom(_, _)
RefMountainsFrom(base, r) ==
  IF r = 0 THEN <<>>
  ELSE <<<<base + 2^(RefLargest(r) + 1) - 1, RefLargest(r)>>>>
         \o RefMountainsFrom(base + 2^(RefLargest(r) + 1) - 1,
                             r - (2^(RefLargest(r) + 1) - 1))

RefMountains(n) == RefMountainsFrom(0, n)

\* the mountain holding position i of a range of n elements
RefMountainOf(i, n) ==
  RefMountains(n)[CHOOSE k \in 1..Len(RefMountains(n)) :
                    /\ RefMountains(n)[k][1] >= i
                    /\ \A j \in 1..(k - 1) : RefMountains(n)[j][1] < i]

\* the siblings met going down from the node q of height h to position i:
\* <<position, side>>, side telling whether the sibling is a left or right child
RECURSIVE RefPathDown(_, _, _)
RefPathDown(q, h, i) ==
  IF i = q THEN <<>>
  ELSE IF i <= q - 2^h
  THEN <<<<q - 1, "right">>>> \o RefPathDown(q - 2^h, h - 1, i)
  ELSE <<<<q - 2^h, "left">>>> \o RefPathDown(q - 1, h - 1, i)

Reverse(seq) == [k \in 1..Len(seq) |-> seq[Len(seq) + 1 - k]]

\* the siblings of position i of mmr, from i up to the peak of its mountain
RefPathUp(i) ==
  Reverse(RefPathDown(RefMountainOf(i, mmr.elementsCount)[1],
                      RefMountainOf(i, mmr.elementsCount)[2], i))

\* acc folded with the stored hashes of path from its k-th entry on, the left
\* child being the left operand
RECURSIVE RefFold(_, _, _)
RefFold(path, k, acc) ==
  IF k > Len(path) THEN acc
  ELSE RefFold(path, k + 1,
               IF path[k][2] = "left"
               THEN PoseidonHash(hashAt(mmr.hashes, path[k][1]), acc)
               ELSE PoseidonHash(acc, hashAt(mmr.hashes, path[k][1])))

\* C7: getProof(i) returns elementIndex = i, elementHash = hashes[i], the
\* store's elementsCount, the peaks left to right, and the stored hashes of
\* the siblings on i's path from i to its peak, which fold with hashes[i]
\* (left child as left operand) into the stored hash of that peak, one of
\* peaksHashes; for leaves A, B, C, getProof(1) has siblingsHashes = [B] and
\* peaksHashes = [H(A,B), C].
C7_ProofShape ==
  (call.op = "getProof" /\ ~call.thrown) =>
    /\ call.proof.elementIndex = call.index
    /\ call.proof.elementHash = hashAt(mmr.hashes, call.index)
    /\ call.proof.elementsCount = mmr.elementsCount
    /\ call.proof.peaksHashes = getPeaks(mmr)
    /\ call.proof.peaksHashes =
         [k \in 1..Len(RefMountains(mmr.elementsCount)) |->
            hashAt(mmr.hashes, RefMountains(mmr.elementsCount)[k][1])]
    /\ call.proof.siblingsHashes =
         [k \in 1..Len(RefPathUp(call.index)) |->
            hashAt(mmr.hashes, RefPathUp(call.index)[k][1])]
    /\ RefFold(RefPathUp(call.index), 1, hashAt(mmr.hashes, call.index))
         = hashAt(mmr.hashes, RefMountainOf(call.index, mmr.elementsCount)[1])
    /\ hashAt(mmr.hashes, RefMountainOf(call.index, mmr.elementsCount)[1])
         \in Range(call.proof.peaksHashes)
    /\ (call.index = 1 /\ Len(log) = 3) =>
         /\ call.proof.siblingsHashes = <<Field(log[2])>>
         /\ call.proof.peaksHashes =
              <<PoseidonHash(Field(log[1]), Field(log[2])), Field(log[3])>>

\* C8: a proof taken before one or more appends no longer verifies:
\* verifyProof(hashes[i], p) returns false, and does not throw.
C8_GrownStoreRejects ==
  (OwnLeaf /\ proofAge >= 1 /\ call.proof = proof)
    => (~call.thrown /\ ~call.ok)

C8_Witness ==
  /\ OwnLeaf /\ proofAge >= 2 /\ call.proof = proof
  /\ ~call.thrown /\ ~call.ok

---------------------------------------------------------------------------
(* Properties of the store (checked under SpecStore) *)

RECURSIVE PopCount(_)
PopCount(n) == IF n = 0 THEN 0 ELSE (n % 2) + PopCount(n \div 2)

\* C5: after n appends on a fresh store, or since the last clear,
\* leavesCount = n and elementsCount = 2n - popcount(n)
\* = leaf_count_to_mmr_size(leavesCount).
C5_ElementsCount ==
  /\ mmr.leavesCount = Len(log)
  /\ mmr.elementsCount = 2 * Len(log) - PopCount(Len(log))
  /\ mmr.elementsCount = leaf_count_to_mmr_size(mmr.leavesCount)

C5_Witness ==
  cleared /\ Len(log) = 7 /\ mmr.leavesCount = 7 /\ mmr.elementsCount = 11

\* bag of the claim: the zero sentinel for no peak, the peak itself for one,
\* else H(p_1, H(p_2, ... H(p_{k-1}, p_k)))
RECURSIVE BagRef(_)
BagRef(ps) ==
  IF Len(ps) = 0 THEN Field(0)
  ELSE IF Len(ps) = 1 THEN ps[1]
  ELSE PoseidonHash(Head(ps), BagRef(Tail(ps)))

\* C6 as stated: in every reachable state rootHash = H(elementsCount,
\* bag(getPeaks())).
C6_RootOverPeaks ==
  mmr.rootHash = PoseidonHash(Field(mmr.elementsCount), BagRef(getPeaks(mmr)))

\* C6 as amended: in every reachable state holding at least one element
\* rootHash = H(elementsCount, bag(getPeaks())); in the empty store, fresh or
\* cleared, rootHash is the zero sentinel.
C6_RootOverPeaksNonEmpty ==
  IF mmr.elementsCount = 0 THEN mmr.rootHash = Field(0)
  ELSE C6_RootOverPeaks

C6_Witness ==
  /\ Len(getPeaks(mmr)) = 3
  /\ C6_RootOverPeaks
  /\ log[1] # log[7]

---------------------------------------------------------------------------
(* Properties of two stores (checked under SpecPair) *)

\* a and b hold the same values, each as many times
SameValues(a, b) ==
  /\ Len(a) = Len(b)
  /\ \A v \in Values :
       Cardinality({k \in 1..Len(a) : a[k] = v})
         = Cardinality({k \in 1..Len(b) : b[k] = v})

\* C9: two stores fed the same sequence have the same rootHash and counters;
\* two stores fed the same values in a different order have different
\* rootHash.
C9_OrderDeterminesRoot ==
  /\ (log = otherLog) =>
       /\ mmr.rootHash = other.rootHash
       /\ mmr.leavesCount = other.leavesCount
       /\ mmr.elementsCount = other.elementsCount
  /\ (SameValues(log, otherLog) /\ log # otherLog) =>
       mmr.rootHash # other.rootHash

C9_Witness ==
  /\ log = <<0, 1>> /\ otherLog = <<1, 0>>
  /\ ~cleared
  /\ mmr.rootHash # other.rootHash

---------------------------------------------------------------------------
(* Errors of getProof (checked under Spec) *)

\* C11: getProof(leafIndex) throws exactly when leafIndex < 1 or
\* leafIndex > elementsCount (so index 0, index elementsCount + 1 and every
\* index on an empty store throw), and a call that throws leaves the store
\* unchanged.
C11_GetProofRange ==
  /\ [](call.op = "getProof" =>
         (call.thrown <=>
            (call.index < 1 \/ call.index > mmr.elementsCount)))
  /\ [][(call'.op = "getProof" /\ call'.thrown) => mmr' = mmr]_vars

C11_Witness ==
  /\ call.op = "getProof" /\ call.thrown
  /\ call.index = mmr.elementsCount + 1
  /\ mmr.elementsCount >= 3

---------------------------------------------------------------------------
(* Errors of verifyProof (checked under SpecVerify) *)

\* n is the size of a range: 2k - popcount(k) for some number k of leaves
ValidSize(n) == \E k \in 0..n : 2 * k - PopCount(k) = n

\* the number of siblings on the path of position i of a range of n elements
RefSiblingCount(i, n) ==
  Len(RefPathDown(RefMountainOf(i, n)[1], RefMountainOf(i, n)[2], i))

\* the proof's elementIndex is within 1..elementsCount of the proof
IndexInProof(p) ==
  ~lessThan(p.elementIndex, 1) /\ ~greaterThan(p.elementIndex, p.elementsCount)

\* C12: verifyProof throws, rather than returning a Bool, when the number of
\* siblings or of peaks of the proof is not the one the shape of a range of
\* proof.elementsCount elements gives position proof.elementIndex.
C12_MalformedThrows ==
  (/\ call.op = "verifyProof"
   /\ ValidSize(call.proof.elementsCount)
   /\ call.proof.elementIndex \in 1..call.proof.elementsCount
   /\ \/ Len(call.proof.siblingsHashes)
           # RefSiblingCount(call.proof.elementIndex, call.proof.elementsCount)
      \/ Len(call.proof.peaksHashes)
           # Len(RefMountains(call.proof.elementsCount)))
    => call.thrown

\* C13: verifyProof throws whenever proof.elementIndex < 1 or
\* proof.elementIndex > proof.elementsCount, the count being the proof's own
\* and not the store's.
C13_IndexOutOfProofThrows ==
  (call.op = "verifyProof" /\ ~IndexInProof(call.proof)) => call.thrown

C13_Witness ==
  /\ call.op = "verifyProof" /\ call.thrown
  /\ call.proof.elementIndex >= 1
  /\ call.proof.elementIndex <= mmr.elementsCount
  /\ call.proof.elementIndex > call.proof.elementsCount
  /\ call.proof.elementsCount >= 1

\* C14: for every proof whose elementIndex is within 1..proof.elementsCount,
\* whatever its leaf, siblings and peaks, verifyProof returns a Bool and does
\* not throw.
C14_InRangeNeverThrows ==
  (call.op = "verifyProof" /\ IndexInProof(call.proof)) => ~call.thrown

\* stores with the rootHash of m and other hashes, leavesCount, elementsCount
AlteredStores(m) ==
  {[leavesCount |-> lc, elementsCount |-> ec, hashes |-> h,
    rootHash |-> m.rootHash] :
     lc \in {0, m.leavesCount + 1},
     ec \in {0, m.elementsCount + 1},
     h \in {<<>>, hashPut(m.hashes, 1, Field(1)),
            hashPut(m.hashes, 1, Field(0))}}

\* C15: the result of verifyProof depends only on the leaf, the proof and the
\* rootHash: a store with the same rootHash and other hashes, leavesCount and
\* elementsCount gives the same result for the same leaf and proof.
C15_OnlyRootIsRead ==
  (call.op = "verifyProof") =>
    \A m \in AlteredStores(mmr) :
       verifyProof(m, call.leaf, call.proof)
         = [thrown |-> call.thrown, ok |-> call.ok]

C15_Witness ==
  /\ call.op = "verifyProof" /\ ~call.thrown /\ call.ok
  /\ mmr.elementsCount >= 3
  /\ call.leaf # hashAt(mmr.hashes, call.proof.elementIndex)
  /\ \A m \in AlteredStores(mmr) : verifyProof(m, call.leaf, call.proof).ok

---------------------------------------------------------------------------
(* What append returns (checked under SpecStore) *)

\* C16: append(value) returns elementIndex = the elementsCount before the call
\* plus 1, leaves value itself at that position, returns the leavesCount,
\* elementsCount and rootHash the store holds after the call, and raises
\* leavesCount by exactly 1.
C16_AppendReturns ==
  /\ [](call.op = "append" =>
         /\ ~call.thrown
         /\ hashAt(mmr.hashes, call.ret.elementIndex) = call.leaf
         /\ call.ret.leavesCount = mmr.leavesCount
         /\ call.ret.elementsCount = mmr.elementsCount
         /\ call.ret.rootHash = mmr.rootHash)
  /\ [][call'.op = "append" =>
          /\ call'.ret.elementIndex = mmr.elementsCount + 1
          /\ mmr'.leavesCount = mmr.leavesCount + 1]_vars

C16_Witness ==
  /\ call.op = "append" /\ ~call.thrown
  /\ call.leaf = Field(1)
  /\ call.ret.elementIndex = 8
  /\ call.ret.elementsCount = 8
  /\ hashAt(mmr.hashes, 8) = Field(1)
  /\ mmr.leavesCount = 5

---------------------------------------------------------------------------
(* The contract (checked under SpecContract) *)

\* C17: verifyInclusion accepts only when the root it reconstructs from the
\* leaf and the proof is the stored mmrRoot; with mmrRoot the store's
\* rootHash, a call with a leaf other than the one the proof was built for
\* is rejected.
C17_InclusionRejectsWrongLeaf ==
  /\ (call.op = "verifyInclusion" /\ call.ok) =>
       verifyInclusion(mmrRoot, call.leaf, call.proof, call.bagged).computedRoot
         = mmrRoot
  /\ (/\ call.op = "verifyInclusion"
      /\ mmrRoot = mmr.rootHash
      /\ Fresh /\ call.proof = MMRProof(proof)
      /\ call.leaf # proof.elementHash)
       => ~call.ok

---------------------------------------------------------------------------
(* Position arithmetic (checked under SpecArith) *)

\* the number of trailing zero bits of n (n >= 1)
RECURSIVE TrailingZeros(_)
TrailingZeros(n) == IF n % 2 = 1 THEN 0 ELSE 1 + TrailingZeros(n \div 2)

\* the height of position i under the node q of height h, the root of a
\* perfect tree: its left child is q - 2^h, its right child q - 1
RECURSIVE RefHeightUnder(_, _, _)
RefHeightUnder(q, h, i) ==
  IF i = q THEN h
  ELSE IF i <= q - 2^h THEN RefHeightUnder(q - 2^h, h - 1, i)
  ELSE RefHeightUnder(q - 1, h - 1, i)

\* the height of position p in the post-order numbering: taken in the smallest
\* perfect tree that holds p
RefHeight(p) ==
  RefHeightUnder(2^(RefLargest(p) + 2) - 1, RefLargest(p) + 1, p)

---------------------------------------------------------------------------
(* The climb of verifyProof (checked under Spec) *)

\* whether position i, below the node q of height h, is a "left" or a
\* "right" child
RECURSIVE RefSideUnder(_, _, _)
RefSideUnder(q, h, i) ==
  IF i = q - 1 THEN "right"
  ELSE IF i = q - 2^h THEN "left"
  ELSE IF i < q - 2^h THEN RefSideUnder(q - 2^h, h - 1, i)
  ELSE RefSideUnder(q - 1, h - 1, i)

\* the side of position p, taken in a perfect tree that holds p below its root
RefSide(p) == RefSideUnder(2^(RefLargest(p) + 3) - 1, RefLargest(p) + 2, p)

\* hash folded with the siblings of list from the k-th on along the positions
\* of path, a sibling being the first operand when the position is a child of
\* side siblingFirst
RECURSIVE RefClimb(_, _, _, _, _)
RefClimb(list, path, k, hash, siblingFirst) ==
  IF k > Len(list) THEN hash
  ELSE RefClimb(list, path, k + 1,
                IF RefSide(path[k]) = siblingFirst
                THEN PoseidonHash(list[k], hash)
                ELSE PoseidonHash(hash, list[k]),
                siblingFirst)

\* the last call is a verifyProof, on a proof of the position of the held
\* proof, that returned
ClimbMade ==
  /\ call.op = "verifyProof" /\ ~call.thrown
  /\ proof # NoProof
  /\ call.proof.elementIndex = proof.elementIndex
  /\ Len(call.proof.siblingsHashes) = Len(proof.siblingsHashes)

\* verifyProof's positions are those getProof took for the same index
SameAdvance ==
  verifyClimbIndices(call.proof.siblingsHashes, 1, call.proof.elementIndex,
                     <<>>)
    = getProofIndices(findPeaks(proof.elementsCount), proof.elementIndex, <<>>)

\* C19 as stated: at each step verifyProof takes H(sibling, hash) when it
\* climbs from a left child and H(hash, sibling) when it climbs from a right
\* child, and advances the index as getProof does.
C19_ClimbAsStated ==
  ClimbMade =>
    /\ SameAdvance
    /\ verifyClimb(call.proof.siblingsHashes, 1, call.proof.elementIndex,
                   call.leaf)
         = RefClimb(call.proof.siblingsHashes,
                    getProofIndices(findPeaks(proof.elementsCount),
                                    proof.elementIndex, <<>>),
                    1, call.leaf, "left")

\* C19 as amended: at each step verifyProof takes H(hash, sibling) when it
\* climbs from a left child and H(sibling, hash) when it climbs from a right
\* child, and advances the index as getProof does.
C19_ClimbLeftOperandLeft ==
  ClimbMade =>
    /\ SameAdvance
    /\ verifyClimb(call.proof.siblingsHashes, 1, call.proof.elementIndex,
                   call.leaf)
         = RefClimb(call.proof.siblingsHashes,
                    getProofIndices(findPeaks(proof.elementsCount),
                                    proof.elementIndex, <<>>),
                    1, call.leaf, "right")

C19_Witness ==
  /\ ClimbMade
  /\ proof.elementIndex = 4
  /\ Len(call.proof.siblingsHashes) = 3
  /\ RefSide(4) = "left" /\ RefSide(5) = "right"
  /\ call.leaf = Field(1)
  /\ call.proof.siblingsHashes[1] = Field(0)
  /\ verifyClimb(call.proof.siblingsHashes, 2, 5,
                 PoseidonHash(Field(1), Field(0)))
       = verifyClimb(call.proof.siblingsHashes, 1, 4, call.leaf)

---------------------------------------------------------------------------
(* Internal nodes (checked under SpecStore) *)

\* C20: in every reachable state, every position p <= elementsCount of
\* height h > 0 holds H(hashes[p - 2^h], hashes[p - 1]), the hash of its left
\* child and then of its right child.
C20_InternalNodes ==
  \A p \in 1..mmr.elementsCount :
     RefHeight(p) > 0 =>
       hashAt(mmr.hashes, p)
         = PoseidonHash(hashAt(mmr.hashes, p - 2^RefHeight(p)),
                        hashAt(mmr.hashes, p - 1))

C20_Witness ==
  /\ mmr.elementsCount = 15
  /\ RefHeight(15) = 3
  /\ hashAt(mmr.hashes, 15)
       = PoseidonHash(hashAt(mmr.hashes, 7), hashAt(mmr.hashes, 14))
  /\ hashAt(mmr.hashes, 7) # hashAt(mmr.hashes, 14)
  /\ cleared

---------------------------------------------------------------------------
(* The merge loop of append (checked under SpecStore) *)

\* C21 as stated: the merge loop of append makes at most
\* height(elementsCount + 1) passes, elementsCount being the store's count
\* when append is entered and elementsCount + 1 the position of the new leaf.
C21_MergesAtMostLeafHeight ==
  [][call'.op = "append" =>
       call'.merges <= getHeight(mmr.elementsCount + 1)]_vars

\* C21 as amended: the merge loop of append makes exactly
\* height(elementsCount') passes, elementsCount' being the store's count
\* after the call (the last position written); that is the number of
\* trailing zero bits of the new leavesCount, at most
\* bitLength(leavesCount) - 1.
C21_MergesArePeakHeight ==
  (call.op = "append") =>
    /\ call.merges = getHeight(mmr.elementsCount)
    /\ call.merges = RefHeight(mmr.elementsCount)
    /\ call.merges = TrailingZeros(mmr.leavesCount)
    /\ call.merges <= bitLength(mmr.leavesCount) - 1
    /\ call.merges = mmr.elementsCount - call.ret.elementIndex

C21_Witness ==
  /\ call.op = "append"
  /\ mmr.leavesCount = 8
  /\ call.merges = 3
  /\ getHeight(call.ret.elementIndex) = 0
  /\ getHeight(call.ret.elementIndex + 1) = 1

\* C22: whenever the body of append's merge loop runs the working peak list
\* holds at least 2 entries: append never throws 'Not enough elements in peaks
\* to pop', and never leaves the store with hashes written and the counters
\* and the root not updated.
C22_AppendNeverThrows ==
  /\ (call.op = "append") => ~call.thrown
  /\ Len(getPeaks(mmr)) >= (IF mmr.elementsCount = 0 THEN 0 ELSE 1)
  /\ \A p \in DOMAIN mmr.hashes : p <= mmr.elementsCount
  /\ mmr.leavesCount = Len(log)
  /\ mmr.elementsCount = 0 <=> mmr.rootHash = Field(0)

C22_Witness ==
  /\ call.op = "append" /\ ~call.thrown
  /\ call.merges = 1
  /\ Len(getPeaks(mmr)) = 2
  /\ mmr.elementsCount = 10

---------------------------------------------------------------------------
(* The peaks (checked under SpecStore) *)

\* C23: for every reachable elementsCount, findPeaks(elementsCount) ends and
\* returns the list of the greedy reference: the largest 2^(h+1) - 1 not above
\* what remains of the count is taken off and the running sum recorded as a
\* peak, until nothing remains (the empty list for 0).
C23_FindPeaksGreedy ==
  findPeaks(mmr.elementsCount)
    = [k \in 1..Len(RefMountains(mmr.elementsCount)) |->
         RefMountains(mmr.elementsCount)[k][1]]

C23_Witness ==
  /\ mmr.elementsCount = 11
  /\ findPeaks(mmr.elementsCount) = <<7, 10, 11>>
  /\ RefMountains(mmr.elementsCount) = <<<<7, 2>>, <<10, 1>>, <<11, 0>>>>

\* C24: in every reachable state the positions findPeaks(elementsCount)
\* returns are strictly increasing and their heights strictly decreasing from
\* left to right, and the last one is elementsCount when the store is not
\* empty.
C24_PeaksOrdered ==
  /\ \A k \in 1..(Len(findPeaks(mmr.elementsCount)) - 1) :
        /\ findPeaks(mmr.elementsCount)[k]
             < findPeaks(mmr.elementsCount)[k + 1]
        /\ RefHeight(findPeaks(mmr.elementsCount)[k])
             > RefHeight(findPeaks(mmr.elementsCount)[k + 1])
  /\ (mmr.elementsCount > 0) =>
       /\ Len(findPeaks(mmr.elementsCount)) >= 1
       /\ findPeaks(mmr.elementsCount)[Len(findPeaks(mmr.elementsCount))]
            = mmr.elementsCount

C24_Witness ==
  /\ mmr.elementsCount = 18
  /\ Len(findPeaks(mmr.elementsCount)) = 2
  /\ findPeaks(mmr.elementsCount)[1] = 15
  /\ RefHeight(15) = 3 /\ RefHeight(18) = 1

---------------------------------------------------------------------------
(* The steps of the climb (checked under SpecArith) *)

\* C25: for every position p >= 1 the right-child test of getProof and
\* verifyProof, height(p+1) = height(p) + 1, holds iff height(p+1) >
\* height(p); and the sibling and the parent taken at p (p - 2^h and p + 1
\* when the test holds, p + 2^h and p + 2^(h+1) - 1 otherwise, h = height(p))
\* have height h and height h + 1.
C25_SiblingAndParentHeights ==
  (call.op = "climb") =>
    /\ call.right <=> (getHeight(call.index + 1) > getHeight(call.index))
    /\ call.right =>
         /\ call.sibling = call.index - 2^call.value
         /\ call.parent = call.index + 1
    /\ ~call.right =>
         /\ call.sibling = call.index + 2^call.value
         /\ call.parent = call.index + 2^(call.value + 1) - 1
    /\ call.sibling >= 1
    /\ RefHeight(call.sibling) = call.value
    /\ RefHeight(call.parent) = call.value + 1

---------------------------------------------------------------------------
(* The length of the climb of getProof (checked under Spec) *)

\* C26: for every index of 1..elementsCount the climb of getProof ends on a
\* peak after at most bitLength(elementsCount) - 1 steps, and every index it
\* takes and every sibling position it reads lies in 1..elementsCount.
C26_ClimbBounded ==
  (call.op = "getProof" /\ ~call.thrown) =>
    /\ getProofIndices(findPeaks(mmr.elementsCount), call.index, <<>>)[
         Len(getProofIndices(findPeaks(mmr.elementsCount), call.index, <<>>))]
         \in Range(findPeaks(mmr.elementsCount))
    /\ Len(getProofSiblings(findPeaks(mmr.elementsCount), call.index, <<>>))
         <= bitLength(mmr.elementsCount) - 1
    /\ Range(getProofIndices(findPeaks(mmr.elementsCount), call.index, <<>>))
         \subseteq 1..mmr.elementsCount
    /\ Range(getProofSiblings(findPeaks(mmr.elementsCount), call.index, <<>>))
         \subseteq 1..mmr.elementsCount

---------------------------------------------------------------------------
(* What append writes (checked under SpecStore) *)

\* C27: append changes no stored hash: the hashes at the positions
\* 1..elementsCount held before the call are unchanged, the positions written
\* are those from the old elementsCount + 1 to the new elementsCount, and
\* each of them is written exactly once.
C27_AppendWritesNewOnly ==
  [][call'.op = "append" =>
       /\ \A p \in 1..mmr.elementsCount :
            hashAt(mmr'.hashes, p) = hashAt(mmr.hashes, p)
       /\ \A p \in DOMAIN mmr'.hashes : p <= mmr'.elementsCount
       /\ call'.written
            = [k \in 1..(mmr'.elementsCount - mmr.elementsCount) |->
                 mmr.elementsCount + k]]_vars

C27_Witness ==
  /\ call.op = "append"
  /\ call.written = <<5, 6, 7>>
  /\ hashAt(mmr.hashes, 1) = Field(1)
  /\ hashAt(mmr.hashes, 5) = Field(0)
  /\ cleared

C29_ReadsSeeWholeCalls ==
  call.op \in {"getProof", "getPeaks"} =>
    /\ mmr \in {pc.before, callAfter(pc)}
    /\ ~(/\ \/ mmr.hashes /= pc.before.hashes
             \/ mmr.elementsCount /= pc.before.elementsCount
          /\ \/ mmr.rootHash = pc.before.rootHash
             \/ mmr.leavesCount = pc.before.leavesCount)

\* getPeaks called after the append of a second leaf has returned: the append
\* made one merge pass and left three elements where it had found one
C29_Witness ==
  /\ call.op = "getPeaks"
  /\ Len(call.peaks) = 1
  /\ pc.op = "append" /\ pc.step = "done"
  /\ pc.height = 1
  /\ pc.before.elementsCount = 1
  /\ mmr.elementsCount = 3
  /\ mmr = callAfter(pc)

====
